---- MODULE Spec2Model ----
(***************************************************************************)
(* Model of src/properties.py: the bounding-box candidate selector         *)
(* (perform_searches), the stay pricer (get_total_cost) and the ranking    *)
(* loop of main.                                                           *)
(*                                                                         *)
(* Coordinates are whole degrees (the floats of the source take only       *)
(* integral values here, on which float arithmetic is exact); dates are    *)
(* day numbers (the source's datetimes are all at midnight, so             *)
(* (checkout - checkin).days is their difference).  Property and search    *)
(* identifiers are the strings of the input; they are modelled by          *)
(* positive integers and are only compared for equality and hashed.        *)
(***************************************************************************)
EXTENDS Integers, Sequences, FiniteSets

\* ---------------------------------------------------------------- bounds
MaxProps    == 12   \* properties of a catalog of the ranking inputs
MaxSelProps == 3    \* properties of a catalog of the selector inputs
MaxDay      == 3    \* dates are the days 0..MaxDay
MaxPrice    == 1    \* prices are 0..MaxPrice
MaxSeed     == 2    \* string-hash seeds of the interpreter are 0..MaxSeed

\* ----------------------------------------------------- program constants
Radius == 1         \* the 1.0 of search["lat"] - 1.0 etc.
TopN   == 10        \* the 10 of sorted_results[:10]

\* The grid of the inputs: coordinates at distance 0, Radius and 2 * Radius
\* of one another (inside the box, on its bound, outside it).
Coords == 0..(2 * Radius)

\* ------------------------------------------------------- python helpers
\* The value None, and an int as get_total_cost returns it.
None == [tag |-> "None"]
IntVal(c) == [tag |-> "int", val |-> c]

\* Python's sorted(xs, key=itemgetter(item)): a stable sort (equal keys keep
\* their order).  InsertSorted puts x after every element whose key is <= x's.
RECURSIVE InsertSorted(_, _, _)
InsertSorted(s, x, item) ==
    IF s = <<>> THEN <<x>>
    ELSE IF s[Len(s)][item] <= x[item] THEN Append(s, x)
    ELSE Append(InsertSorted(SubSeq(s, 1, Len(s) - 1), x, item), s[Len(s)])

RECURSIVE Sorted(_, _)
Sorted(xs, item) ==
    IF xs = <<>> THEN <<>>
    ELSE InsertSorted(Sorted(SubSeq(xs, 1, Len(xs) - 1), item), xs[Len(xs)], item)

\* bisect.bisect_left(a, x, lo, hi): a is a TLA+ sequence, indices are Python's
\* (0-based), so Python's a[mid] is a[mid + 1].
RECURSIVE bisect_left_from(_, _, _, _)
bisect_left_from(a, x, lo, hi) ==
    IF lo < hi
    THEN LET mid == (lo + hi) \div 2 IN
         IF a[mid + 1] < x THEN bisect_left_from(a, x, mid + 1, hi)
         ELSE bisect_left_from(a, x, lo, mid)
    ELSE lo

bisect_left(a, x) == bisect_left_from(a, x, 0, Len(a))

\* A variant that takes the upper bound as bisect_left does, which leaves out
\* the elements equal to x.
bisect_right_exclusive(a, x) == bisect_left(a, x)

RECURSIVE bisect_right_from(_, _, _, _)
bisect_right_from(a, x, lo, hi) ==
    IF lo < hi
    THEN LET mid == (lo + hi) \div 2 IN
         IF x < a[mid + 1] THEN bisect_right_from(a, x, lo, mid)
         ELSE bisect_right_from(a, x, mid + 1, hi)
    ELSE lo

bisect_right(a, x) == bisect_right_from(a, x, 0, Len(a))

\* Python's s[lo:hi] for 0 <= lo, hi <= len(s).
Slice(s, lo, hi) == SubSeq(s, lo + 1, hi)

\* The values of a dict in insertion order; a dict keyed 1..n here.
Values(d) == [i \in 1..Cardinality(DOMAIN d) |-> d[i]]

\* The hash of an identifier under the interpreter's per-process seed
\* (str hashes are randomised per process): a bijection on identifiers
\* below 13 for every seed 0..4.
Hash(id, seed) == (id * (5 * seed + 1)) % 13

\* The order in which iterating a set of identifiers yields them: by hash
\* slot, which depends on the seed and not on the order of insertion.
HashKey(id, seed) == Hash(id, seed) * 100 + id

RECURSIVE SetOrder(_, _)
SetOrder(S, seed) ==
    IF S = {} THEN <<>>
    ELSE LET first == CHOOSE x \in S :
                        \A y \in S : HashKey(x, seed) <= HashKey(y, seed)
         IN <<first>> \o SetOrder(S \ {first}, seed)

\* ------------------------------------------------------------ the state
VARIABLES
    properties,            \* dict property_id -> property (parse_input)
    dates,                 \* dict (property_id, date) -> availability record
    searches,              \* dict search_id -> search
    hashseed,              \* the interpreter's string-hash seed of this run
    pc,                    \* position of main
    search_results,        \* dict search_id -> list of properties
    sidx,                  \* searches main's loop has entered
    ridx,                  \* candidates of the current search priced so far
    properties_and_costs,  \* list of (property, cost) of the current search
    cost,                  \* the last value get_total_cost returned
    sorted_results,        \* sorted(properties_and_costs) of the last search
    output,                \* the rows printed, in order
    run,                   \* 1: first run, 2: second run on the same input
    prev_output            \* the rows the first run printed

inputs == <<properties, dates, searches>>
locals == <<search_results, sidx, ridx, properties_and_costs, cost, sorted_results>>
vars == <<properties, dates, searches, hashseed, pc, search_results, sidx, ridx,
          properties_and_costs, cost, sorted_results, output, run, prev_output>>

\* ----------------------------------------------------- perform_searches
\* The body of the loop over the searches: the candidates of one search.
CandidatesOf(props, search, seed) ==
    LET sorted_by_lat == Sorted(Values(props), "lat")
        sorted_by_lng == Sorted(Values(props), "lng")
        lats == [i \in 1..Len(sorted_by_lat) |-> sorted_by_lat[i].lat]
        lngs == [i \in 1..Len(sorted_by_lng) |-> sorted_by_lng[i].lng]
        lat_lo == bisect_left(lats, search.lat - Radius)
        lat_hi == bisect_right(lats, search.lat + Radius)
        in_lat == Slice(sorted_by_lat, lat_lo, lat_hi)
        prop_ids_in_lat_range == {in_lat[i].property_id : i \in 1..Len(in_lat)}
        lng_lo == bisect_left(lngs, search.lng - Radius)
        lng_hi == bisect_right(lngs, search.lng + Radius)
        in_lng == Slice(sorted_by_lng, lng_lo, lng_hi)
        prop_ids_in_lng_range == {in_lng[i].property_id : i \in 1..Len(in_lng)}
        prop_ids == prop_ids_in_lat_range \cap prop_ids_in_lng_range
        order == SetOrder(prop_ids, seed)
    IN  [i \in 1..Len(order) |-> props[order[i]]]

perform_searches(props, srch, seed) ==
    [sid \in DOMAIN srch |-> CandidatesOf(props, srch[sid], seed)]

\* ------------------------------------------------------- get_total_cost
\* A variant that walks from the earlier to the later date whatever their order.
Nights_either_order(checkin, checkout) ==
    IF checkout >= checkin
    THEN [i \in 1..(checkout - checkin) |-> checkin + (i - 1)]
    ELSE [i \in 1..(checkin - checkout) |-> checkout + (i - 1)]

\* A variant that counts the check-out date as a night of the stay.
Nights_through_checkout(checkin, checkout) ==
    [i \in 1..(checkout - checkin + 1) |-> checkin + (i - 1)]

\* nights = [checkin + one_day * i for i in range((checkout - checkin).days)];
\* range(n) is empty for n <= 0, as 1..n is.
Nights(checkin, checkout) ==
    [i \in 1..(checkout - checkin) |-> checkin + (i - 1)]

\* The loop over nights[i..], entered with the running total c.
RECURSIVE CostLoop(_, _, _, _, _)
CostLoop(prop, dts, nights, i, c) ==
    IF i > Len(nights) THEN IntVal(c)
    ELSE LET key == <<prop.property_id, nights[i]>> IN
         IF key \notin DOMAIN dts
         THEN CostLoop(prop, dts, nights, i + 1, c + prop.nightly_price)
         ELSE IF dts[key].availability = 0 THEN None
         ELSE CostLoop(prop, dts, nights, i + 1, c + dts[key].price)

\* A variant whose loop skips a not-bookable night instead of returning None.
RECURSIVE CostLoop_skip(_, _, _, _, _)
CostLoop_skip(prop, dts, nights, i, c) ==
    IF i > Len(nights) THEN IntVal(c)
    ELSE LET key == <<prop.property_id, nights[i]>> IN
         IF key \notin DOMAIN dts
         THEN CostLoop_skip(prop, dts, nights, i + 1, c + prop.nightly_price)
         ELSE IF dts[key].availability = 0
         THEN CostLoop_skip(prop, dts, nights, i + 1, c)
         ELSE CostLoop_skip(prop, dts, nights, i + 1, c + dts[key].price)

get_total_cost_skip(prop, dts, checkin, checkout) ==
    CostLoop_skip(prop, dts, Nights(checkin, checkout), 1, 0)

\* A variant that charges the default price for a bookable recorded night.
RECURSIVE CostLoop_default(_, _, _, _, _)
CostLoop_default(prop, dts, nights, i, c) ==
    IF i > Len(nights) THEN IntVal(c)
    ELSE LET key == <<prop.property_id, nights[i]>> IN
         IF key \in DOMAIN dts /\ dts[key].availability = 0 THEN None
         ELSE CostLoop_default(prop, dts, nights, i + 1, c + prop.nightly_price)

get_total_cost_default(prop, dts, checkin, checkout) ==
    CostLoop_default(prop, dts, Nights(checkin, checkout), 1, 0)

get_total_cost(prop, dts, checkin, checkout) ==
    CostLoop(prop, dts, Nights(checkin, checkout), 1, 0)

\* ----------------------------------------------------------------- main
\* A variant that tests "if cost:", which is false for 0 as for None.
IsTruthy(c) == c # None /\ c.val # 0

\* "if cost is not None"
IsNotNone(c) == c # None

\* A variant whose sort puts an element before the elements of equal cost.
RECURSIVE InsertBeforeEqual(_, _)
InsertBeforeEqual(s, x) ==
    IF s = <<>> THEN <<x>>
    ELSE IF s[Len(s)][2] < x[2] THEN Append(s, x)
    ELSE Append(InsertBeforeEqual(SubSeq(s, 1, Len(s) - 1), x), s[Len(s)])

RECURSIVE SortByCost_unstable(_)
SortByCost_unstable(pcs) ==
    IF pcs = <<>> THEN <<>>
    ELSE InsertBeforeEqual(SortByCost_unstable(SubSeq(pcs, 1, Len(pcs) - 1)),
                           pcs[Len(pcs)])

\* sorted(properties_and_costs, key=lambda k: k[1]); k[1] is the tuple's
\* second component.
SortByCost(pcs) == Sorted(pcs, 2)

\* A variant that prints every sorted result.
Best_uncut(srt) == srt

\* A variant that keeps the last ten, sorted_results[-10:].
Best_last(srt) ==
    SubSeq(srt, IF Len(srt) < TopN THEN 1 ELSE Len(srt) - TopN + 1, Len(srt))

\* sorted_results[:10]
Best(srt) == SubSeq(srt, 1, IF Len(srt) < TopN THEN Len(srt) ELSE TopN)

\* The row printed for enumerate index idx (0-based), before the join to text.
Row(search_id, idx, final_result) ==
    [search_id |-> search_id, rank |-> idx + 1,
     property_id |-> final_result[1].property_id, total_cost |-> final_result[2]]

\* The searches in the order main's loop visits them (dict insertion order).
SearchIds == [i \in 1..Cardinality(DOMAIN searches) |-> i]

PerformSearches ==
    /\ pc = "start"
    /\ search_results' = perform_searches(properties, searches, hashseed)
    /\ pc' = "searches"
    /\ UNCHANGED <<inputs, hashseed, sidx, ridx, properties_and_costs, cost,
                   sorted_results, output, run, prev_output>>

\* for search_id, results in search_results.items(): ... properties_and_costs = []
NextSearch ==
    /\ pc = "searches"
    /\ sidx < Len(SearchIds)
    /\ sidx' = sidx + 1
    /\ ridx' = 0
    /\ properties_and_costs' = <<>>
    /\ pc' = "pricing"
    /\ UNCHANGED <<inputs, hashseed, search_results, cost, sorted_results,
                   output, run, prev_output>>

\* for prop in results: one iteration.
PriceCandidate ==
    /\ pc = "pricing"
    /\ LET search_id == SearchIds[sidx]
           search == searches[search_id]
           results == search_results[search_id]
       IN /\ ridx < Len(results)
          /\ LET prop == results[ridx + 1]
                 c == get_total_cost(prop, dates, search.checkin, search.checkout)
             IN /\ cost' = c
                /\ properties_and_costs' =
                       IF IsNotNone(c)
                       THEN Append(properties_and_costs, <<prop, c.val>>)
                       ELSE properties_and_costs
    /\ ridx' = ridx + 1
    /\ UNCHANGED <<inputs, hashseed, pc, search_results, sidx, sorted_results,
                   output, run, prev_output>>

\* sorted_results = sorted(...); for idx, final_result in enumerate(...): print
SortAndPrint ==
    /\ pc = "pricing"
    /\ ridx = Len(search_results[SearchIds[sidx]])
    /\ LET srt == SortByCost(properties_and_costs)
           best == Best(srt)
       IN /\ sorted_results' = srt
          /\ output' = output \o
                 [i \in 1..Len(best) |-> Row(SearchIds[sidx], i - 1, best[i])]
    /\ pc' = "searches"
    /\ UNCHANGED <<inputs, hashseed, search_results, sidx, ridx,
                   properties_and_costs, cost, run, prev_output>>

\* The loop over the searches is exhausted: main returns.
Finish ==
    /\ pc = "searches"
    /\ sidx = Len(SearchIds)
    /\ pc' = "done"
    /\ UNCHANGED <<inputs, hashseed, locals, output, run, prev_output>>

\* The program is run a second time on the same input, in a new process
\* (a new hash seed); the rows of the first run are kept for comparison.
Rerun ==
    /\ pc = "done"
    /\ run = 1
    /\ run' = 2
    /\ prev_output' = output
    /\ hashseed' \in 0..MaxSeed
    /\ pc' = "start"
    /\ search_results' = <<>>
    /\ sidx' = 0
    /\ ridx' = 0
    /\ properties_and_costs' = <<>>
    /\ cost' = None
    /\ sorted_results' = <<>>
    /\ output' = <<>>
    /\ UNCHANGED inputs

Step ==
    \/ PerformSearches
    \/ NextSearch
    \/ PriceCandidate
    \/ SortAndPrint
    \/ Finish

Next == Step \/ Rerun

\* --------------------------------------------------------------- inputs
\* The state when main has parsed its input and nothing else has run.
AtStart ==
    /\ pc = "start"
    /\ search_results = <<>>
    /\ sidx = 0
    /\ ridx = 0
    /\ properties_and_costs = <<>>
    /\ cost = None
    /\ sorted_results = <<>>
    /\ output = <<>>
    /\ run = 1
    /\ prev_output = <<>>

Property(id, lat, lng, price) ==
    [property_id |-> id, lat |-> lat, lng |-> lng, nightly_price |-> price]

Search(id, lat, lng, checkin, checkout) ==
    [search_id |-> id, lat |-> lat, lng |-> lng,
     checkin |-> checkin, checkout |-> checkout]

\* A bookable record with any override price, or a not-bookable record (whose
\* price the program never reads).
DateRecords ==
    [availability : {1}, price : 0..MaxPrice]
        \cup {[availability |-> 0, price |-> MaxPrice]}

\* Selector inputs: every catalog of at most MaxSelProps properties on the
\* grid, no availability records, one search anywhere on the grid and a
\* second one in a corner.  The set of candidates does not depend on the
\* iteration order of the set, so one hash seed is taken.
InitSelect ==
    /\ \E n \in 0..MaxSelProps :
         \E lat \in [1..n -> Coords], lng \in [1..n -> Coords] :
            properties = [i \in 1..n |-> Property(i, lat[i], lng[i], 1)]
    /\ dates = <<>>
    /\ \E lat \in Coords, lng \in Coords :
         searches = <<Search(1, lat, lng, 0, 1), Search(2, 2 * Radius, 0, 0, 1)>>
    /\ hashseed = 0
    /\ AtStart

SpecSelect == InitSelect /\ [][Step]_vars

\* Pricer inputs: one property at the search's coordinates with any default
\* price, any availability records for it on the days 0..MaxDay, a
\* not-bookable record on every day for a property 2 that is not in the
\* catalog, and any check-in and check-out day (also checkout <= checkin).
\* With a single candidate the iteration order of the set is immaterial.
InitPrice ==
    /\ \E price \in 0..MaxPrice :
         properties = <<Property(1, 0, 0, price)>>
    /\ \E days \in SUBSET (0..MaxDay) :
         \E recs \in [days -> DateRecords] :
            dates = [k \in {<<1, d>> : d \in days} \cup {<<2, d>> : d \in 0..MaxDay}
                     |-> IF k[1] = 1 THEN recs[k[2]]
                         ELSE [availability |-> 0, price |-> MaxPrice]]
    /\ \E checkin \in 0..MaxDay, checkout \in 0..MaxDay :
         searches = <<Search(1, 0, 0, checkin, checkout)>>
    /\ hashseed = 0
    /\ AtStart

SpecPrice == InitPrice /\ [][Step]_vars

\* Ranking inputs: n <= MaxProps properties with default prices
\* (a * id + b) % (MaxPrice + 1) for a in {0, 1} (all equal, or cycling with
\* the identifier), all at (0, 0) except optionally property 3 at latitude
\* 2 * Radius; no availability record, or one record for property 1 on
\* day 1; search 1 at (0, 0) for the nights 0 and 1, search 2 at (1, 1) for
\* the night 1.
InitMain ==
    /\ \E n \in 0..MaxProps, a \in {0, 1}, b \in 0..MaxPrice, far \in {0, 3} :
         properties =
             [i \in 1..n |-> Property(i, IF i = far THEN 2 * Radius ELSE 0, 0,
                                      (a * i + b) % (MaxPrice + 1))]
    /\ \/ dates = <<>>
       \/ \E rec \in DateRecords : dates = [k \in {<<1, 1>>} |-> rec]
    /\ searches = <<Search(1, 0, 0, 0, 2), Search(2, Radius, Radius, 1, 2)>>
    /\ hashseed \in 0..MaxSeed
    /\ AtStart

Spec == InitMain /\ [][Next]_vars

\* ------------------------------------------------- vocabulary of the claims
\* The identifiers of a list of properties.
IdsOf(results) == {results[i].property_id : i \in 1..Len(results)}

\* The properties a scan of the whole catalog finds within 1 degree of the
\* search on both axes, bounds included.
InBox(search) ==
    {id \in DOMAIN properties :
        /\ search.lat - 1 <= properties[id].lat
        /\ properties[id].lat <= search.lat + 1
        /\ search.lng - 1 <= properties[id].lng
        /\ properties[id].lng <= search.lng + 1}

\* The nights of a stay: checkin <= d < checkout.
StayNights(search) == {d \in 0..MaxDay : search.checkin <= d /\ d < search.checkout}

\* Some night of the stay has a record for the property marked not bookable.
HasUnavailableNight(id, search) ==
    \E d \in StayNights(search) :
        /\ <<id, d>> \in DOMAIN dates
        /\ dates[<<id, d>>].availability = 0

\* The price of one night: the record's override price, else the default.
NightPrice(id, d) ==
    IF <<id, d>> \in DOMAIN dates THEN dates[<<id, d>>].price
    ELSE properties[id].nightly_price

RECURSIVE SumNights(_, _)
SumNights(id, D) ==
    IF D = {} THEN 0
    ELSE LET d == CHOOSE x \in D : TRUE
         IN NightPrice(id, d) + SumNights(id, D \ {d})

\* get_total_cost has just returned for a candidate of the current search.
Priced == pc = "pricing" /\ ridx >= 1
CurSearch == searches[SearchIds[sidx]]
LastProp == search_results[SearchIds[sidx]][ridx]

\* The searches whose rows main has printed, when main is between two searches
\* or has returned; and the rows of one search.
Printed == IF pc \in {"searches", "done"} THEN {SearchIds[i] : i \in 1..sidx} ELSE {}
RowsOf(sid) == SelectSeq(output, LAMBDA r : r.search_id = sid)

\* ---------------------------------------------------------------- claims
\* C1: for every catalog and search, perform_searches returns exactly the
\* properties within 1.0 degree of the search on both axes, bounds included:
\* the same set as a scan of the whole catalog, each property once.
C1_BoundingBox ==
    pc # "start" =>
        \A sid \in DOMAIN searches :
            /\ IdsOf(search_results[sid]) = InBox(searches[sid])
            /\ Len(search_results[sid]) = Cardinality(InBox(searches[sid]))
            /\ \A i \in 1..Len(search_results[sid]) :
                   search_results[sid][i] = properties[search_results[sid][i].property_id]

\* A search whose result holds a property exactly on the upper latitude
\* bound and one exactly on the lower bound, and leaves out a property of
\* the same latitude as the first that is too far in longitude.
C1_Witness ==
    /\ pc = "done"
    /\ \E p, q, r \in DOMAIN properties :
         /\ properties[p].lat = searches[1].lat + 1
         /\ properties[r].lat = searches[1].lat - 1
         /\ properties[q].lat = properties[p].lat
         /\ {p, r} \subseteq IdsOf(search_results[1])
         /\ q \notin IdsOf(search_results[1])

\* C2: if some night of the stay has a record marked not bookable,
\* get_total_cost returns None, wherever that night lies in the stay and
\* whatever the other nights' records and prices.
C2_UnavailableVetoes ==
    (Priced /\ HasUnavailableNight(LastProp.property_id, CurSearch)) => cost = None

\* A three-night stay whose only not-bookable night is the last, after a
\* night priced by an override and a night priced by default.
C2_Witness ==
    /\ Priced
    /\ cost = None
    /\ CurSearch.checkin = 0 /\ CurSearch.checkout = 3
    /\ <<1, 0>> \in DOMAIN dates /\ dates[<<1, 0>>].availability = 1
    /\ <<1, 1>> \notin DOMAIN dates
    /\ <<1, 2>> \in DOMAIN dates /\ dates[<<1, 2>>].availability = 0

\* C3: for a stay of at least one night with no night marked not bookable,
\* get_total_cost returns the sum over the nights of the override price
\* where a record exists and of the default price elsewhere; so with no
\* record it is nights x default, and the total with an override on one
\* night exceeds the total without that record by (override - default).
C3_SumOfNights ==
    (/\ Priced
     /\ CurSearch.checkout > CurSearch.checkin
     /\ ~HasUnavailableNight(LastProp.property_id, CurSearch))
    => LET id == LastProp.property_id
           nights == StayNights(CurSearch)
       IN /\ cost = IntVal(SumNights(id, nights))
          /\ (\A d \in nights : <<id, d>> \notin DOMAIN dates)
                => cost = IntVal((CurSearch.checkout - CurSearch.checkin)
                                   * LastProp.nightly_price)
          /\ \A d \in nights :
                <<id, d>> \in DOMAIN dates =>
                    LET without == [k \in DOMAIN dates \ {<<id, d>>} |-> dates[k]]
                        base == get_total_cost(LastProp, without,
                                               CurSearch.checkin, CurSearch.checkout)
                    IN base # None
                       /\ cost.val - base.val
                            = dates[<<id, d>>].price - LastProp.nightly_price

\* A three-night stay priced with one override that differs from the default
\* and two nights at the default.
C3_Witness ==
    /\ Priced
    /\ CurSearch.checkin = 0 /\ CurSearch.checkout = 3
    /\ {d \in 0..MaxDay : <<1, d>> \in DOMAIN dates} = {1}
    /\ dates[<<1, 1>>].availability = 1
    /\ dates[<<1, 1>>].price # LastProp.nightly_price
    /\ cost = IntVal(2 * LastProp.nightly_price + dates[<<1, 1>>].price)

\* C4: the rows printed for a search are sorted non-decreasing by total
\* cost, are at most 10, and hold no property for which get_total_cost
\* returned None for that search's dates.
C4_SortedCutBookable ==
    \A sid \in Printed :
        LET rows == RowsOf(sid) IN
        /\ Len(rows) <= 10
        /\ \A i \in 1..Len(rows), j \in 1..Len(rows) :
               i < j => rows[i].total_cost <= rows[j].total_cost
        /\ \A i \in 1..Len(rows) :
               get_total_cost(properties[rows[i].property_id], dates,
                              searches[sid].checkin, searches[sid].checkout) # None

\* Search 1 is printed: more than ten candidates were priced, one candidate
\* was unavailable, and the ten rows have different costs.
C4_Witness ==
    /\ 1 \in Printed
    /\ Len(RowsOf(1)) = 10
    /\ RowsOf(1)[1].total_cost < RowsOf(1)[10].total_cost
    /\ \E id \in IdsOf(search_results[1]) : HasUnavailableNight(id, searches[1])
    /\ \E id \in IdsOf(search_results[1]) :
         /\ ~HasUnavailableNight(id, searches[1])
         /\ \A i \in 1..10 : RowsOf(1)[i].property_id # id

\* The bookable candidates of a search and the cost of one.
Bookable(sid) ==
    {id \in IdsOf(search_results[sid]) :
        get_total_cost(properties[id], dates,
                       searches[sid].checkin, searches[sid].checkout) # None}
CostOf(sid, id) ==
    get_total_cost(properties[id], dates,
                   searches[sid].checkin, searches[sid].checkout).val
Emitted(sid) == {RowsOf(sid)[i].property_id : i \in 1..Len(RowsOf(sid))}
RankOf(sid, id) == CHOOSE i \in 1..Len(RowsOf(sid)) : RowsOf(sid)[i].property_id = id

\* C5: for a search with B bookable candidates main prints min(10, B) rows,
\* ranked 1, 2, ... in the order printed, each for a different bookable
\* candidate at its cost, and no bookable candidate left out is cheaper
\* than a printed row.
C5_CheapestTen ==
    \A sid \in Printed :
        LET rows == RowsOf(sid)
            B == Bookable(sid)
            E == Emitted(sid)
            c == [id \in B |-> CostOf(sid, id)]
        IN /\ Len(rows) = (IF Cardinality(B) < 10 THEN Cardinality(B) ELSE 10)
           /\ \A i \in 1..Len(rows) :
                  /\ rows[i].rank = i
                  /\ rows[i].search_id = sid
                  /\ rows[i].property_id \in B
                  /\ rows[i].total_cost = c[rows[i].property_id]
           /\ Cardinality(E) = Len(rows)
           /\ \A id \in B \ E :
                  \A i \in 1..Len(rows) : c[id] >= rows[i].total_cost

\* Search 1 has more than ten bookable candidates, ten rows are printed and
\* a candidate left out costs more than the first row.
C5_Witness ==
    /\ pc = "done"
    /\ Cardinality(Bookable(1)) > 10
    /\ \E id \in Bookable(1) \ Emitted(1) : CostOf(1, id) > RowsOf(1)[1].total_cost
    /\ Len(RowsOf(1)) = 10

C7_Deterministic ==
    (run = 2 /\ pc = "done") => output = prev_output

\* C8: bookable candidates of equal cost are printed in the order of the
\* selector's candidate list: of two such candidates, when the later one is
\* printed the earlier one is printed too, with a smaller rank.
C8_StableTies ==
    \A sid \in Printed :
        LET cand == search_results[sid]
            B == Bookable(sid)
            E == Emitted(sid)
            c == [id \in B |-> CostOf(sid, id)]
            rank == [id \in E |-> RankOf(sid, id)]
        IN \A i \in 1..Len(cand), j \in 1..Len(cand) :
            (/\ i < j
             /\ {cand[i].property_id, cand[j].property_id} \subseteq B
             /\ c[cand[i].property_id] = c[cand[j].property_id]
             /\ cand[j].property_id \in E)
            => /\ cand[i].property_id \in E
               /\ rank[cand[i].property_id] < rank[cand[j].property_id]

\* Search 1 is printed: two candidates of equal cost, the earlier in the
\* candidate list with the larger identifier, are printed in list order, and
\* a third of the same cost, later in the list, is cut after rank 10.
C8_Witness ==
    /\ 1 \in Printed
    /\ LET cand == search_results[1] IN
       \E i \in 1..Len(cand), j \in 1..Len(cand), k \in 1..Len(cand) :
          /\ i < j /\ j < k
          /\ cand[i].property_id > cand[j].property_id
          /\ {cand[i].property_id, cand[j].property_id, cand[k].property_id}
                \subseteq Bookable(1)
          /\ CostOf(1, cand[i].property_id) = CostOf(1, cand[j].property_id)
          /\ CostOf(1, cand[j].property_id) = CostOf(1, cand[k].property_id)
          /\ {cand[i].property_id, cand[j].property_id} \subseteq Emitted(1)
          /\ cand[k].property_id \notin Emitted(1)

\* C9: for checkout = checkin and for checkout before checkin,
\* get_total_cost enumerates no night and returns the cost 0, whatever
\* records exist, and every candidate of such a search is printed with
\* total cost 0 (for searches of at most ten candidates).
C9_ZeroNights ==
    /\ (Priced /\ CurSearch.checkout <= CurSearch.checkin)
          => (/\ cost = IntVal(0)
              /\ Nights(CurSearch.checkin, CurSearch.checkout) = <<>>)
    /\ \A sid \in Printed :
          (/\ searches[sid].checkout <= searches[sid].checkin
           /\ Cardinality(InBox(searches[sid])) <= 10)
          => /\ Emitted(sid) = InBox(searches[sid])
             /\ \A i \in 1..Len(RowsOf(sid)) : RowsOf(sid)[i].total_cost = 0

\* Check-out two days before check-in, the property marked not bookable on
\* every day, default price 1: the row printed has total cost 0.
C9_Witness ==
    /\ pc = "done"
    /\ searches[1].checkin = 2 /\ searches[1].checkout = 0
    /\ properties[1].nightly_price = 1
    /\ \A d \in 0..MaxDay :
         <<1, d>> \in DOMAIN dates /\ dates[<<1, d>>].availability = 0
    /\ output = <<[search_id |-> 1, rank |-> 1, property_id |-> 1, total_cost |-> 0]>>

\* The keys (property, day) that are not a night of the stay of property id:
\* other days of that property, and every day of property 2.
KeysOutsideStay(id, search) ==
    {k \in {id, 2} \X (0..MaxDay) : ~(k[1] = id /\ k[2] \in StayNights(search))}

\* The availability table with the record of key k removed.
WithoutRecord(k) == [x \in DOMAIN dates \ {k} |-> dates[x]]

\* The availability table with the record rec at key k.
WithRecord(k, rec) == [x \in DOMAIN dates \cup {k} |-> IF x = k THEN rec ELSE dates[x]]

\* The value get_total_cost returned is the one it returns on every table
\* that differs from the availability table in one record outside the stay.
DependsOnStayOnly ==
    Priced =>
        \A k \in KeysOutsideStay(LastProp.property_id, CurSearch) :
            /\ cost = get_total_cost(LastProp, WithoutRecord(k),
                                     CurSearch.checkin, CurSearch.checkout)
            /\ \A rec \in DateRecords :
                  cost = get_total_cost(LastProp, WithRecord(k, rec),
                                        CurSearch.checkin, CurSearch.checkout)

\* C10: the result of get_total_cost depends only on the property's default
\* price and on its records for the nights checkin <= d < checkout: adding,
\* removing or changing a record for the check-out date, for a date outside
\* the stay or for another property changes nothing, and no step of the
\* program changes the catalog or the availability table.
C10_Frame ==
    /\ []DependsOnStayOnly
    /\ [][properties' = properties /\ dates' = dates]_vars

\* A one-night stay is priced while the property is marked not bookable on
\* the check-out date and the day before check-in, and property 2 is marked
\* not bookable on the night of the stay.
C10_Witness ==
    /\ Priced
    /\ cost # None
    /\ CurSearch.checkin = 1 /\ CurSearch.checkout = 2
    /\ <<1, 0>> \in DOMAIN dates /\ dates[<<1, 0>>].availability = 0
    /\ <<1, 2>> \in DOMAIN dates /\ dates[<<1, 2>>].availability = 0
    /\ <<2, 1>> \in DOMAIN dates /\ dates[<<2, 1>>].availability = 0

====
